---- MODULE Spec2Model ----
(***************************************************************************)
(* mmapbench (src/main.rs): a memory-mapped view of a target, a pool of    *)
(* access workers touching it sequentially or at random, one load          *)
(* generator thread, and the main thread's one-second monitor loop that    *)
(* drains the per-worker counters and reads two /proc feeds.               *)
(*                                                                         *)
(* Sizes are scaled: the real page is 4096 bytes, a scan block 128 MiB and *)
(* the mapping 2 TiB; here they keep the same divisibility (a block is a   *)
(* whole number of pages, the mapping a whole number of blocks).           *)
(***************************************************************************)
EXTENDS Integers, Sequences, FiniteSets, TLC

(* ---------- sizes ---------- *)

\* sysconf(_SC_PAGESIZE), in bytes (scaled)
PageSize == 2
\* pages walked per claimed block (scaled; 32768 with the real sizes)
StridesPerBlock == 2
\* blocks in the mapping (scaled; 16384 with the real sizes)
BlocksPerMap == 2
\* let scan_block = 128 * 1024 * 1024
scan_block == StridesPerBlock * PageSize
\* let file_size = 2 * 1024 * 1024 * 1024 * 1024u64: the length that is mapped
file_size == BlocksPerMap * scan_block
\* sum += c * 512
SectorBytes == 512
\* width of the unsigned words the monitor subtracts (u64, scaled)
WordBits == 12
Modulus == 2 ^ WordBits

(* ---------- bounds of the exploration ---------- *)

\* largest "threads" argument
MaxThreads == 2
\* touches one worker performs
MaxTouches == 3
\* batches the load generator completes
MaxBatches == 2
\* records the monitor emits
MaxRecords == 2

Workers == 1..MaxThreads

\* st_size of the target at open time: empty, one byte, a page and a bit, and
\* a target as long as the mapping
TargetLens == {0, 1, PageSize + 1, file_size}

(* ---------- the two /proc feeds ---------- *)

\* A feed is [ok, lines]: ok is whether File::open succeeds.  A line is
\* [ok, marker, toks]: ok is whether the line decodes, marker whether it
\* contains the substring looked for, toks its whitespace-separated fields.
\* A field >= 0 is a decimal number; a field < 0 stands for text that
\* parse::<u64>() rejects.
Line(ok, marker, toks) == [ok |-> ok, marker |-> marker, toks |-> toks]
Feed(ok, lines) == [ok |-> ok, lines |-> lines]

Panic == [panic |-> TRUE, val |-> 0]
Ret(v) == [panic |-> FALSE, val |-> v]

\* val.parse::<u64>()
ParseU64(tok) == IF tok >= 0 THEN Ret(tok) ELSE Panic
ParseOk(tok) == ~ParseU64(tok).panic

RECURSIVE SumParsed(_, _)
\* for val in line.split_whitespace().skip(1): if let Ok(c) = parse { count += c }
SumParsed(toks, k) ==
    IF k > Len(toks) THEN 0
    ELSE (IF ParseOk(toks[k]) THEN ParseU64(toks[k]).val ELSE 0) + SumParsed(toks, k + 1)

RECURSIVE TlbScan(_, _)
TlbScan(lines, k) ==
    IF k > Len(lines) THEN Ret(0)
    ELSE IF ~lines[k].ok THEN Panic
    ELSE IF lines[k].marker THEN Ret(SumParsed(lines[k].toks, 2))
    ELSE TlbScan(lines, k + 1)

read_tlb_shootdown_count(feed) ==
    IF ~feed.ok THEN Panic ELSE TlbScan(feed.lines, 1)

\* strs[5]: the sixth field, a panic when the line has fewer than six
SixthField(toks) == IF Len(toks) < 6 THEN Panic ELSE Ret(toks[6])

RECURSIVE IoScan(_, _, _)
IoScan(lines, k, sum) ==
    IF k > Len(lines) THEN Ret(sum)
    ELSE IF ~lines[k].ok THEN Panic
    ELSE IF lines[k].marker
         THEN IF SixthField(lines[k].toks).panic THEN Panic
              ELSE IF ParseOk(SixthField(lines[k].toks).val)
                   THEN IoScan(lines, k + 1, sum + SixthField(lines[k].toks).val * SectorBytes)
                   ELSE IoScan(lines, k + 1, sum)
         ELSE IoScan(lines, k + 1, sum)

read_io_bytes(feed) ==
    IF ~feed.ok THEN Panic ELSE IoScan(feed.lines, 1, 0)

\* /proc/interrupts with a TLB line among others
HealthyInterrupts ==
    Feed(TRUE, << Line(TRUE, FALSE, <<-1, 7>>),
                  Line(TRUE, TRUE, <<-1, 1, 2, -1, -1>>),
                  Line(TRUE, TRUE, <<-1, 9>>) >>)

\* /proc/interrupts as the monitor may find it: unreadable, empty, without a
\* TLB line, healthy, with a line that does not decode
InterruptFeeds ==
    { Feed(FALSE, <<>>),
      Feed(TRUE, <<>>),
      Feed(TRUE, << Line(TRUE, FALSE, <<-1, 7, 7>>) >>),
      HealthyInterrupts,
      Feed(TRUE, << Line(FALSE, FALSE, <<>>) >>) }

\* /proc/diskstats with an nvme line among others
HealthyDisk ==
    Feed(TRUE, << Line(TRUE, FALSE, <<8, 0, -1, 5, 0, 9>>),
                  Line(TRUE, TRUE, <<259, 0, -1, 5, 0, 1, 3>>) >>)

\* /proc/diskstats as the monitor may find it: unreadable, empty, healthy, with
\* an nvme line whose sixth field is no number, with an nvme line of five
\* fields, with a line that does not decode
DiskFeeds ==
    { Feed(FALSE, <<>>),
      Feed(TRUE, <<>>),
      HealthyDisk,
      Feed(TRUE, << Line(TRUE, TRUE, <<259, 1, -1, 5, 0, -1>>) >>),
      Feed(TRUE, << Line(TRUE, TRUE, <<259, 0, -1, 5, 0>>) >>),
      Feed(TRUE, << Line(FALSE, FALSE, <<>>) >>) }

(* ---------- state ---------- *)

VARIABLES
    threads,          \* argument 2: number of access workers
    seq,              \* argument 3: sequential (TRUE) or random (FALSE)
    hint,             \* argument 4: madvise selector
    target_len,       \* byte length of the target when it is opened
    overflow_checks,  \* the build: arithmetic overflow panics (TRUE) or wraps
    madvise_ok,       \* whether the kernel accepts the madvise call
    proc_interrupts,  \* the contents /proc/interrupts may show during the run
    proc_diskstats,   \* the contents /proc/diskstats may show during the run
    proc,             \* "running", "panicked" (main panicked) or "sigbus"
    mainPc,           \* position of the main thread
    sb_st_size,       \* sb.st_size after fstat (-1 before)
    mapped,           \* the mapping exists
    advised,          \* the madvise calls made, in order: [advice, ok]
    spawned,          \* access workers started so far
    counts,           \* counts[i]: worker i's touch counter
    sums,             \* sums[i]: worker i's checksum
    seq_scan_pos,     \* the shared sequential cursor
    cpu_work,         \* the load generator's counter
    wpc,              \* wpc[i]: position of worker i
    pos,              \* pos[i]: start of worker i's block
    j,                \* j[i]: stride offset of worker i within its block
    lastLoad,         \* the latest load from the mapping: [by, at] (by = 0: none)
    lgPc,             \* position of the load generator
    last_shootdowns, last_io_bytes,   \* the monitor's baselines
    shootdowns, io_bytes,             \* this interval's readings
    work_count,       \* the running sum of the swapped-out counters
    di,               \* next slot counts.iter() visits
    header,           \* the header line is printed
    records,          \* the data records printed, in order
    \* history, read by the properties only
    claimed,          \* the values fetch_add on seq_scan_pos returned, in order
    touches,          \* touches[i]: count.fetch_add calls worker i has made
    batches,          \* batches the load generator has completed and counted
    ticks,            \* sleeps that have returned
    sinceTick,        \* sinceTick[i]: touches of worker i since the last tick
    rate,             \* least touches of any worker in any completed interval
    swapsSince,       \* swapsSince[i]: swaps of counts[i] since the last record
    sinceSwap,        \* sinceSwap[i]: increments of counts[i] since its last swap
    lgSinceSwap,      \* increments of cpu_work since its last swap
    tlbBad, ioBad,    \* this interval's feed was unreadable, missing or malformed
    initial,          \* the two readings taken before the first sleep
    trail             \* trail[i]: the offsets worker i has touched since its claim

cfgVars == <<threads, seq, hint, target_len, overflow_checks, madvise_ok,
             proc_interrupts, proc_diskstats>>
setupVars == <<sb_st_size, mapped, advised, spawned>>
workerVars == <<counts, sums, seq_scan_pos, wpc, pos, j, lastLoad>>
lgVars == <<cpu_work, lgPc>>
monVars == <<last_shootdowns, last_io_bytes, shootdowns, io_bytes, work_count, di,
             header, records>>
histRest == <<claimed, touches, batches, ticks, sinceTick, rate, swapsSince,
              sinceSwap, lgSinceSwap, tlbBad, ioBad, trail>>
histVars == <<histRest, initial>>
vars == <<cfgVars, proc, mainPc, setupVars, workerVars, lgVars, monVars, histVars>>

\* selectors tried for argument 4: the three named ones and one other
Hints == {0, 1, 2, 3}

\* The runs explored.  A run is its arguments and its environment.  Four
\* groups of them vary independently of each other in the program: the thread
\* count, the target's length, the hint's (selector, madvise result) and the
\* monitor's feeds (their contents, the build's overflow behaviour).  Every
\* run varies at most one group away from the plain run of one sequential
\* worker over a full-length target, hint 0, healthy feeds; the access mode
\* varies along with the thread count and with the target's length.
AllCases ==
    [ threads : 0..MaxThreads, seq : BOOLEAN, hint : Hints, target_len : TargetLens,
      overflow_checks : BOOLEAN, madvise_ok : BOOLEAN, varying : BOOLEAN ]
Varied(c) ==
    << c.threads # 1,
       c.target_len # file_size,
       c.hint # 0 \/ ~c.madvise_ok,
       c.varying \/ ~c.overflow_checks >>
Cases ==
    { c \in AllCases :
        /\ \A a, b \in 1..4 : Varied(c)[a] /\ Varied(c)[b] => a = b
        /\ ~c.seq => ~Varied(c)[3] /\ ~Varied(c)[4] }

Init ==
    /\ \E c \in Cases :
         /\ threads = c.threads
         /\ seq = c.seq
         /\ hint = c.hint
         /\ target_len = c.target_len
         /\ overflow_checks = c.overflow_checks
         /\ madvise_ok = c.madvise_ok
         /\ proc_interrupts = IF c.varying THEN InterruptFeeds ELSE {HealthyInterrupts}
         /\ proc_diskstats = IF c.varying THEN DiskFeeds ELSE {HealthyDisk}
    /\ proc = "running"
    /\ mainPc = "open"
    /\ sb_st_size = -1
    /\ mapped = FALSE
    /\ advised = <<>>
    /\ spawned = 0
    /\ counts = [i \in Workers |-> 0]
    /\ sums = [i \in Workers |-> 0]
    /\ seq_scan_pos = 0
    /\ cpu_work = 0
    /\ wpc = [i \in Workers |-> "unstarted"]
    /\ pos = [i \in Workers |-> 0]
    /\ j = [i \in Workers |-> 0]
    /\ lastLoad = [by |-> 0, at |-> 0]
    /\ lgPc = "unstarted"
    /\ last_shootdowns = 0 /\ last_io_bytes = 0
    /\ shootdowns = 0 /\ io_bytes = 0
    /\ work_count = 0
    /\ di = 1
    /\ header = FALSE
    /\ records = <<>>
    /\ claimed = <<>>
    /\ touches = [i \in Workers |-> 0]
    /\ batches = 0
    /\ ticks = 0
    /\ sinceTick = [i \in Workers |-> 0]
    /\ rate = MaxTouches
    /\ swapsSince = [i \in Workers |-> 0]
    /\ sinceSwap = [i \in Workers |-> 0]
    /\ lgSinceSwap = 0
    /\ tlbBad = FALSE /\ ioBad = FALSE
    /\ initial = [shootdowns |-> 0, io_bytes |-> 0]
    /\ trail = [i \in Workers |-> <<>>]

Running == proc = "running"

(* ---------- setup: main, lines 76-130 ---------- *)

\* a failed call whose result is not checked: main goes on to the hint
FailureIgnored ==
    /\ mainPc' = "madvise"
    /\ UNCHANGED <<proc, setupVars, workerVars, lgVars, monVars, histVars>>
\* the panic of an expect(), an assert! or an overflow check in main
MainPanics ==
    /\ proc' = "panicked"
    /\ UNCHANGED <<mainPc, setupVars, workerVars, lgVars, monVars, histVars>>

\* File::open(dev).expect("Unable to open file")
Open ==
    /\ Running /\ mainPc = "open"
    /\ \E ok \in BOOLEAN :
         IF ok
         THEN /\ mainPc' = "fstat"
              /\ UNCHANGED <<proc, setupVars, workerVars, lgVars, monVars, histVars>>
         ELSE MainPanics
    /\ UNCHANGED cfgVars

\* libc::fstat(fd_raw, &mut sb): fills sb, which nothing reads afterwards
Fstat ==
    /\ Running /\ mainPc = "fstat"
    /\ sb_st_size' = target_len
    /\ mainPc' = "mmap"
    /\ UNCHANGED <<cfgVars, proc, mapped, advised, spawned, workerVars, lgVars, monVars,
                   histVars>>

\* mmap(null, file_size, PROT_READ, MAP_SHARED, fd, 0); assert!(p != MAP_FAILED)
Mmap ==
    /\ Running /\ mainPc = "mmap"
    /\ \E ok \in BOOLEAN :
         IF ok
         THEN /\ mapped' = TRUE
              /\ mainPc' = "madvise"
              /\ UNCHANGED <<proc, sb_st_size, advised, spawned, workerVars, lgVars,
                             monVars, histVars>>
         ELSE MainPanics
    /\ UNCHANGED cfgVars

\* a match whose first two arms are exchanged
AdviceSwapped(h) ==
    IF h = 1 THEN "sequential" ELSE IF h = 2 THEN "random" ELSE "normal"
\* match hint { 1 => MADV_RANDOM, 2 => MADV_SEQUENTIAL, _ => MADV_NORMAL }
AdviceOf(h) ==
    IF h = 1 THEN "random" ELSE IF h = 2 THEN "sequential" ELSE "normal"

\* madvise(p, file_size, ...): the result is not looked at
Madvise ==
    /\ Running /\ mainPc = "madvise"
    /\ advised' = Append(advised, [from |-> 0, len |-> file_size,
                                    advice |-> AdviceOf(hint), ok |-> madvise_ok])
    /\ mainPc' = "spawn"
    /\ UNCHANGED <<cfgVars, proc, sb_st_size, mapped, spawned, workerVars, lgVars,
                   monVars, histVars>>

\* for i in 0..threads { handles.push(thread::spawn(...)) }
SpawnWorker ==
    /\ Running /\ mainPc = "spawn"
    /\ spawned < threads
    /\ spawned' = spawned + 1
    /\ wpc' = [wpc EXCEPT ![spawned + 1] = IF seq THEN "claim" ELSE "touch"]
    /\ UNCHANGED <<cfgVars, proc, mainPc, sb_st_size, mapped, advised, counts, sums,
                   seq_scan_pos, pos, j, lastLoad, lgVars, monVars, histVars>>

\* the load generator's thread::spawn
SpawnLoadGen ==
    /\ Running /\ mainPc = "spawn"
    /\ spawned = threads
    /\ lgPc' = "batch"
    /\ mainPc' = "header"
    /\ UNCHANGED <<cfgVars, proc, setupVars, workerVars, cpu_work, monVars, histVars>>

(* ---------- access workers: lines 145-170 ---------- *)

\* a fetch_add that is performed twice
FetchAddTwice(v, d) == (v + 2 * d) % Modulus
\* atomic fetch_add on an unsigned word: the new value
FetchAdd(v, d) == (v + d) % Modulus

\* the byte of the target at offset o (a byte past the end of the target, in
\* its last page, reads as zero)
FileByte(o) == IF o < target_len THEN 1 ELSE 0

PageUp(n) == ((n + PageSize - 1) \div PageSize) * PageSize

\* a load from the mapping at offset o, o < file_size, raises SIGBUS when its
\* page lies wholly past the end of the target
Faults(o) == o >= PageUp(target_len)

\* the block start a claim yields from the cursor value it fetched
BlockStart(cursor) == cursor % file_size

\* a claim that re-reads the cursor instead of advancing it
CursorKept(cursor) == cursor
\* a claim that advances the cursor by one page instead of one block
CursorByPage(cursor) == FetchAdd(cursor, PageSize)
\* the cursor after seq_scan_pos.fetch_add(scan_block, Relaxed)
CursorAfterClaim(cursor) == FetchAdd(cursor, scan_block)

\* seq_scan_pos.fetch_add(scan_block) % file_size
SeqClaim(i) ==
    /\ Running /\ seq /\ wpc[i] = "claim"
    /\ touches[i] < MaxTouches
    /\ pos' = [pos EXCEPT ![i] = BlockStart(seq_scan_pos)]
    /\ seq_scan_pos' = CursorAfterClaim(seq_scan_pos)
    /\ j' = [j EXCEPT ![i] = 0]
    /\ wpc' = [wpc EXCEPT ![i] = "touch"]
    /\ claimed' = Append(claimed, seq_scan_pos)
    /\ trail' = [trail EXCEPT ![i] = <<>>]
    /\ UNCHANGED <<cfgVars, proc, mainPc, setupVars, counts, sums, lastLoad, lgVars,
                   monVars, touches, batches, ticks, sinceTick, rate, swapsSince,
                   sinceSwap, lgSinceSwap, tlbBad, ioBad, initial>>

\* a loop that dereferences the block's first byte at every stride
SeqOffsetAtStart(start, stride) == start
\* the offset the sequential loop dereferences: p.offset(pos + j)
SeqOffset(start, stride) == start + stride

\* One pass of a worker's loop body over offset o: the load
\* *sum.get_mut() += *p.offset(o) as u64, which ends the process when it
\* faults, then count.fetch_add(1, Relaxed).
Touch(i, o) ==
    /\ lastLoad' = [by |-> i, at |-> o]
    /\ IF Faults(o)
       THEN /\ proc' = "sigbus"
            /\ UNCHANGED <<sums, counts, touches, sinceTick, sinceSwap>>
       ELSE /\ sums' = [sums EXCEPT ![i] = sums[i] + FileByte(o)]
            /\ counts' = [counts EXCEPT ![i] = FetchAdd(counts[i], 1)]
            /\ touches' = [touches EXCEPT ![i] = touches[i] + 1]
            /\ sinceTick' = [sinceTick EXCEPT ![i] = sinceTick[i] + 1]
            /\ sinceSwap' = [sinceSwap EXCEPT ![i] = sinceSwap[i] + 1]
            /\ UNCHANGED proc
    /\ UNCHANGED <<cfgVars, mainPc, setupVars, seq_scan_pos, pos, lgVars, monVars,
                   claimed, batches, ticks, rate, swapsSince, lgSinceSwap, tlbBad,
                   ioBad, initial>>

\* for j in (0..scan_block).step_by(page_size): one stride, and a new claim
\* once the strides are used up
SeqTouch(i) ==
    /\ Running /\ seq /\ wpc[i] = "touch"
    /\ touches[i] < MaxTouches
    /\ Touch(i, SeqOffset(pos[i], j[i]))
    /\ IF Faults(SeqOffset(pos[i], j[i]))
       THEN UNCHANGED <<j, wpc, trail>>
       ELSE /\ j' = [j EXCEPT ![i] = j[i] + PageSize]
            /\ trail' = [trail EXCEPT ![i] = Append(trail[i], lastLoad'.at)]
            /\ wpc' = [wpc EXCEPT ![i] =
                         IF j[i] + PageSize >= scan_block THEN "claim" ELSE "touch"]

\* Uniform::new(0, file_size).sample(&mut rng)
RandOffsets == 0..(file_size - 1)

\* one pass of the random loop
RandTouch(i) ==
    /\ Running /\ ~seq /\ wpc[i] = "touch"
    /\ touches[i] < MaxTouches
    /\ \E o \in RandOffsets : Touch(i, o)
    /\ UNCHANGED <<j, wpc, trail>>

(* ---------- load generator: lines 178-186 ---------- *)

\* for _ in 0..10000 { x = x.exp().ln() }: thread-local, no shared effect
LoadGenBatch ==
    /\ Running /\ lgPc = "batch"
    /\ batches < MaxBatches
    /\ lgPc' = "add"
    /\ UNCHANGED <<cfgVars, proc, mainPc, setupVars, workerVars, cpu_work, monVars,
                   histVars>>

\* cpu_work.fetch_add(1)
LoadGenAdd ==
    /\ Running /\ lgPc = "add"
    /\ cpu_work' = FetchAdd(cpu_work, 1)
    /\ lgPc' = "batch"
    /\ batches' = batches + 1
    /\ lgSinceSwap' = lgSinceSwap + 1
    /\ UNCHANGED <<cfgVars, proc, mainPc, setupVars, workerVars, monVars, claimed,
                   touches, ticks, sinceTick, rate, swapsSince, sinceSwap, tlbBad,
                   ioBad, initial, trail>>

(* ---------- monitor: lines 189-212 ---------- *)

\* println!("dev,seq,hint,threads,time,workGB,tlb,readGB,CPUwork")
Header ==
    /\ Running /\ mainPc = "header"
    /\ header' = TRUE
    /\ mainPc' = "base_tlb"
    /\ UNCHANGED <<cfgVars, proc, setupVars, workerVars, lgVars, last_shootdowns,
                   last_io_bytes, shootdowns, io_bytes, work_count, di, records,
                   histVars>>

\* whether a feed is one the monitor cannot take a reading from
InterruptFeedBad(f) ==
    \/ ~f.ok
    \/ \E k \in 1..Len(f.lines) : ~f.lines[k].ok
    \/ \A k \in 1..Len(f.lines) : ~f.lines[k].marker

DiskFeedBad(f) ==
    \/ ~f.ok
    \/ \E k \in 1..Len(f.lines) :
         \/ ~f.lines[k].ok
         \/ /\ f.lines[k].marker
            /\ \/ Len(f.lines[k].toks) < 6
               \/ f.lines[k].toks[6] < 0

\* let mut last_shootdowns = read_tlb_shootdown_count()
BaseTlb ==
    /\ Running /\ mainPc = "base_tlb"
    /\ \E f \in proc_interrupts :
         IF read_tlb_shootdown_count(f).panic
         THEN MainPanics
         ELSE /\ last_shootdowns' = read_tlb_shootdown_count(f).val
              /\ initial' = [initial EXCEPT !.shootdowns = last_shootdowns']
              /\ mainPc' = "base_io"
              /\ UNCHANGED <<proc, setupVars, workerVars, lgVars, last_io_bytes,
                             shootdowns, io_bytes, work_count, di, header, records,
                             histRest>>
    /\ UNCHANGED cfgVars

\* let mut last_io_bytes = read_io_bytes(); let start = Instant::now()
BaseIo ==
    /\ Running /\ mainPc = "base_io"
    /\ \E f \in proc_diskstats :
         IF read_io_bytes(f).panic
         THEN MainPanics
         ELSE /\ last_io_bytes' = read_io_bytes(f).val
              /\ initial' = [initial EXCEPT !.io_bytes = last_io_bytes']
              /\ mainPc' = "sleep"
              /\ UNCHANGED <<proc, setupVars, workerVars, lgVars, last_shootdowns,
                             shootdowns, io_bytes, work_count, di, header, records,
                             histRest>>
    /\ UNCHANGED cfgVars

RECURSIVE MinOver(_, _, _)
\* the least f[i] for i in 1..n, capped by cap
MinOver(f, n, cap) ==
    IF n = 0 THEN cap
    ELSE MinOver(f, n - 1, IF f[n] < cap THEN f[n] ELSE cap)

\* thread::sleep(Duration::from_secs(1)) returns, then
\* let shootdowns = read_tlb_shootdown_count()
ReadTlb ==
    /\ Running /\ mainPc = "sleep"
    /\ Len(records) < MaxRecords
    /\ ticks' = ticks + 1
    /\ rate' = MinOver(sinceTick, threads, rate)
    /\ sinceTick' = [i \in Workers |-> 0]
    /\ \E f \in proc_interrupts :
         /\ tlbBad' = InterruptFeedBad(f)
         /\ IF read_tlb_shootdown_count(f).panic
            THEN /\ proc' = "panicked"
                 /\ mainPc' = "read_tlb"
                 /\ UNCHANGED shootdowns
            ELSE /\ shootdowns' = read_tlb_shootdown_count(f).val
                 /\ mainPc' = "read_io"
                 /\ UNCHANGED proc
    /\ UNCHANGED <<cfgVars, setupVars, workerVars, lgVars, last_shootdowns,
                   last_io_bytes, io_bytes, work_count, di, header, records, claimed,
                   touches, batches, swapsSince, sinceSwap, lgSinceSwap, ioBad,
                   initial, trail>>

\* let io_bytes = read_io_bytes()
ReadIo ==
    /\ Running /\ mainPc = "read_io"
    /\ \E f \in proc_diskstats :
         /\ ioBad' = DiskFeedBad(f)
         /\ IF read_io_bytes(f).panic
            THEN /\ proc' = "panicked"
                 /\ UNCHANGED <<mainPc, io_bytes, work_count, di>>
            ELSE /\ io_bytes' = read_io_bytes(f).val
                 /\ mainPc' = IF threads = 0 THEN "report" ELSE "drain"
                 /\ work_count' = 0
                 /\ di' = 1
                 /\ UNCHANGED proc
    /\ UNCHANGED <<cfgVars, setupVars, workerVars, lgVars, last_shootdowns,
                   last_io_bytes, shootdowns, header, records, claimed, touches,
                   batches, ticks, sinceTick, rate, swapsSince, sinceSwap, lgSinceSwap,
                   tlbBad, initial, trail>>

\* a load in place of the swap: the counter keeps its value
SwapStoreKept(old) == old
\* c.swap(0, Relaxed): the value stored
SwapStore(old) == 0
\* a swap whose result is the value stored, not the value replaced
SwapResultNew(old) == 0
\* a swap that drops one unit of the value replaced
SwapResultShort(old) == IF old > 0 THEN old - 1 ELSE 0
\* c.swap(0, Relaxed): the value returned
SwapResult(old) == old
\* an iteration that visits every other slot
NextSlotSkipping(k) == k + 2
\* counts.iter(): the slot visited after slot k
NextSlot(k) == k + 1

\* one element of counts.iter().map(|c| c.swap(0, Relaxed)).sum()
DrainSlot ==
    /\ Running /\ mainPc = "drain"
    /\ di <= threads
    /\ work_count' = work_count + SwapResult(counts[di])
    /\ counts' = [counts EXCEPT ![di] = SwapStore(counts[di])]
    /\ di' = NextSlot(di)
    /\ mainPc' = IF NextSlot(di) > threads THEN "report" ELSE "drain"
    /\ swapsSince' = [swapsSince EXCEPT ![di] = swapsSince[di] + 1]
    /\ sinceSwap' = [sinceSwap EXCEPT ![di] = 0]
    /\ UNCHANGED <<cfgVars, proc, setupVars, sums, seq_scan_pos, wpc, pos, j, lastLoad,
                   lgVars, last_shootdowns, last_io_bytes, shootdowns, io_bytes, header,
                   records, claimed, touches, batches, ticks, sinceTick, rate,
                   lgSinceSwap, tlbBad, ioBad, initial, trail>>

\* a - b on unsigned words: a panic under overflow checks, else wrapping
Sub(a, b) ==
    IF a >= b THEN Ret(a - b)
    ELSE IF overflow_checks THEN Panic
    ELSE Ret((a - b + Modulus) % Modulus)

\* a record with one more column, the workers' checksums
RecordWithSums(tlb, read_bytes, cpu_work_done) ==
    [ work_count |-> work_count,
      work_bytes |-> work_count * PageSize,
      tlb        |-> tlb,
      read_bytes |-> read_bytes,
      cpu        |-> cpu_work_done,
      checksum   |-> sums,
      tlbBad     |-> tlbBad,
      ioBad      |-> ioBad ]
\* the record println! writes; work_bytes and read_bytes are the numerators of
\* the workGB and readGB columns
Record(tlb, read_bytes, cpu_work_done) ==
    [ work_count |-> work_count,
      work_bytes |-> work_count * PageSize,
      tlb        |-> tlb,
      read_bytes |-> read_bytes,
      cpu        |-> cpu_work_done,
      tlbBad     |-> tlbBad,
      ioBad      |-> ioBad ]

\* lines 202-211: the two deltas, cpu_work.swap(0, Relaxed), println!, then
\* the baselines take this interval's readings
Report ==
    /\ Running /\ mainPc = "report"
    /\ IF Sub(shootdowns, last_shootdowns).panic \/ Sub(io_bytes, last_io_bytes).panic
       THEN /\ proc' = "panicked"
            /\ UNCHANGED <<mainPc, cpu_work, lgSinceSwap, records, last_shootdowns,
                           last_io_bytes, shootdowns, io_bytes, work_count, di, tlbBad,
                           ioBad, swapsSince>>
       ELSE /\ cpu_work' = SwapStore(cpu_work)
            /\ lgSinceSwap' = 0
            /\ records' = Append(records,
                                 Record(Sub(shootdowns, last_shootdowns).val,
                                        Sub(io_bytes, last_io_bytes).val,
                                        SwapResult(cpu_work)))
            /\ last_shootdowns' = shootdowns
            /\ last_io_bytes' = io_bytes
            /\ shootdowns' = 0 /\ io_bytes' = 0 /\ work_count' = 0 /\ di' = 1
            /\ tlbBad' = FALSE /\ ioBad' = FALSE
            /\ swapsSince' = [i \in Workers |-> 0]
            /\ mainPc' = "sleep"
            /\ UNCHANGED proc
    /\ UNCHANGED <<cfgVars, setupVars, workerVars, lgPc, header, claimed, touches,
                   batches, ticks, sinceTick, rate, sinceSwap, initial, trail>>

(* ---------- the program ---------- *)

Next ==
    \/ Open
    \/ Fstat
    \/ Mmap
    \/ Madvise
    \/ SpawnWorker
    \/ SpawnLoadGen
    \/ \E i \in Workers : SeqClaim(i)
    \/ \E i \in Workers : SeqTouch(i)
    \/ \E i \in Workers : RandTouch(i)
    \/ LoadGenBatch
    \/ LoadGenAdd
    \/ Header
    \/ BaseTlb
    \/ BaseIo
    \/ ReadTlb
    \/ ReadIo
    \/ DrainSlot
    \/ Report

Spec == Init /\ [][Next]_vars

(* ---------- properties ---------- *)

RECURSIVE SumTo(_, _)
\* f[1] + ... + f[n]
SumTo(f, n) == IF n = 0 THEN 0 ELSE f[n] + SumTo(f, n - 1)

\* the work counts of the records printed so far, summed
WorkReported == SumTo([k \in 1..Len(records) |-> records[k].work_count], Len(records))

InLoop == mainPc \in {"sleep", "read_tlb", "read_io", "drain", "report"}

\* C1: in sequential mode over a target of positive length L, every offset a
\* worker reads at lies in [0, L).
C1_SeqReadsInBounds ==
    (seq /\ target_len > 0) =>
        (lastLoad.by # 0 => (0 <= lastLoad.at /\ lastLoad.at < target_len))

\* C2: in random mode over a target of positive length L, every offset a
\* worker draws lies in [0, L); over a 1-byte target every touch reads offset 0.
C2_RandReadsInBounds ==
    (~seq /\ target_len > 0) =>
        (lastLoad.by # 0 => (0 <= lastLoad.at /\ lastLoad.at < target_len))

\* C3: no touch is lost or double-counted: the work counts drained so far
\* (reported, or summed in the drain under way) plus the counters' current
\* values equal the touches performed.
C3_NoTouchLost ==
    /\ WorkReported + work_count + SumTo(counts, MaxThreads) = SumTo(touches, MaxThreads)

\* C3's case: two workers, a record already printed, and in the next drain
\* worker 1 has touched again after its slot was swapped while slot 2 is
\* still to be swapped
C3_Witness ==
    /\ threads = 2
    /\ Len(records) >= 1 /\ records[1].work_count > 0
    /\ mainPc = "drain" /\ di = 2
    /\ work_count > 0 /\ counts[1] > 0 /\ counts[2] > 0

\* C4: over a target of length zero no access worker and no load generator is
\* started, the monitor loop is not entered and no record is printed.
C4_ZeroLengthStartsNothing ==
    target_len = 0 =>
        /\ spawned = 0
        /\ \A i \in Workers : wpc[i] = "unstarted"
        /\ lgPc = "unstarted"
        /\ ~InLoop
        /\ records = <<>>

\* C5: an interval whose feed is unreadable, missing or malformed does not
\* stop the monitor, and its record carries zero in that feed's field.
C5_FeedFailureAbsorbed ==
    /\ ~(proc = "panicked" /\ mainPc \in {"read_tlb", "read_io"})
    /\ \A k \in 1..Len(records) :
         /\ records[k].tlbBad => records[k].tlb = 0
         /\ records[k].ioBad => records[k].read_bytes = 0

\* C6: a drain leaves the counter at zero, and a drain that follows a drain
\* with no increment in between returns zero and leaves the counter as it
\* was; for the touch counters and for cpu_work.
C6_DrainIdempotent ==
    [][ /\ (mainPc = "drain" /\ di' # di) =>
             /\ counts'[di] = 0
             /\ (sinceSwap[di] = 0 /\ Len(records) >= 1) =>
                    (work_count' = work_count /\ counts'[di] = counts[di])
        /\ Len(records') > Len(records) =>
             /\ cpu_work' = 0
             /\ (lgSinceSwap = 0 /\ Len(records) >= 1) =>
                    (records'[Len(records')].cpu = 0 /\ cpu_work' = cpu_work)
      ]_vars

\* C6's case: a first drain that returned touches and a batch, then a second
\* drain with nothing counted in between, which returned zero for both
C6_Witness ==
    /\ Len(records) = 2
    /\ records[1].work_count > 0 /\ records[1].cpu > 0
    /\ records[2].work_count = 0 /\ records[2].cpu = 0
    /\ \A i \in Workers : counts[i] = 0

\* C7: with one tick per return of the monitor's sleep, if every worker
\* performs at least R touches between any two ticks, the N records printed
\* for N ticks report at least N * W * R touches in all.
C7_ThroughputLowerBound ==
    Len(records) = ticks => WorkReported >= Len(records) * threads * rate

\* C7's case: two workers, each touching in both of two intervals
C7_Witness ==
    /\ threads = 2 /\ ticks = 2 /\ Len(records) = 2
    /\ rate >= 1

\* the bytes [start, start + scan_block) of two claims do not meet
Apart(a, b) ==
    \/ BlockStart(a) + scan_block <= BlockStart(b)
    \/ BlockStart(b) + scan_block <= BlockStart(a)

\* C8: no two claims fetch the same cursor value, and the blocks of the claims
\* made before the cursor has advanced by the region's length do not overlap.
C8_ClaimsDisjoint ==
    \A a, b \in 1..Len(claimed) :
        a < b =>
            /\ claimed[a] # claimed[b]
            /\ (claimed[a] < file_size /\ claimed[b] < file_size) =>
                   Apart(claimed[a], claimed[b])

\* C8's case: two workers hold blocks at once, one claimed before and one
\* after the cursor passed the region's length, and the two blocks coincide
C8_Witness ==
    /\ threads = 2
    /\ Len(claimed) >= 3
    /\ wpc[1] = "touch" /\ wpc[2] = "touch"
    /\ pos[1] = pos[2]
    /\ \E a, b \in 1..Len(claimed) : a # b /\ claimed[a] < file_size /\ claimed[b] < file_size

\* C9: the cursor is scan_block times the number of claims made, and it
\* changes only in a sequential worker's claim, which adds scan_block; no step
\* of the monitor, of the load generator or of a random-mode worker writes it.
C9_CursorOnlyAdvances ==
    /\ [](seq_scan_pos = scan_block * Len(claimed))
    /\ [][ seq_scan_pos' # seq_scan_pos =>
             /\ seq
             /\ seq_scan_pos' = seq_scan_pos + scan_block
             /\ \E i \in Workers : wpc[i] = "claim" /\ wpc'[i] = "touch"
             /\ mainPc' = mainPc /\ lgPc' = lgPc /\ records' = records
         ]_vars

\* C9's case: the cursor has passed the region's length and the monitor has
\* drained and reported in the meantime
C9_Witness ==
    /\ seq_scan_pos > file_size
    /\ Len(records) >= 1
    /\ batches >= 1

\* C10: when a record is printed every worker's counter has been swapped
\* exactly once since the record before, only the monitor's drain lowers a
\* counter, and a worker's step leaves its counter alone or adds one.
C10_DrainedOncePerInterval ==
    [][ /\ Len(records') > Len(records) =>
             \A i \in 1..threads : swapsSince[i] = 1
        /\ \A i \in Workers :
             /\ counts'[i] < counts[i] => (mainPc = "drain" /\ di = i /\ wpc' = wpc)
             /\ wpc'[i] # wpc[i] =>
                    (counts'[i] = counts[i] \/ counts'[i] = counts[i] + 1)
      ]_vars

\* C10's case: two records, each reporting touches of two workers
C10_Witness ==
    /\ threads = 2 /\ Len(records) = 2
    /\ records[1].work_count >= 2 /\ records[2].work_count >= 2

\* an access worker has loaded from the mapping
AnyWorkerTouched == lastLoad.by # 0 \/ \E i \in Workers : touches[i] > 0

\* C11: the hint is applied exactly once, to the whole mapping, before any
\* worker's first touch; it is random for selector 1, sequential for selector
\* 2 and normal for any other selector; and a failed madvise does not stop the
\* run: the step that applies it leaves the process running and goes on to
\* start the threads.
C11_HintOnceBeforeTouch ==
    /\ [](/\ Len(advised) <= 1
          /\ (\E i \in Workers : wpc[i] # "unstarted") => Len(advised) = 1
          /\ (AnyWorkerTouched \/ lgPc # "unstarted" \/ InLoop) => Len(advised) = 1
          /\ \A k \in 1..Len(advised) :
                /\ advised[k].from = 0 /\ advised[k].len = file_size
                /\ hint = 1 => advised[k].advice = "random"
                /\ hint = 2 => advised[k].advice = "sequential"
                /\ hint \notin {1, 2} => advised[k].advice = "normal")
    /\ [][ Len(advised') > Len(advised) =>
              /\ proc' = "running"
              /\ mainPc' = "spawn"
              /\ \A i \in Workers : touches[i] = 0
          ]_vars
    /\ [](proc = "panicked" => mainPc \notin {"madvise", "spawn", "header"})

\* C11's case: the madvise call failed, and the worker has touched pages and
\* the monitor has printed a record all the same
C11_Witness ==
    /\ Len(advised) = 1 /\ ~advised[1].ok
    /\ touches[1] > 0
    /\ Len(records) >= 1 /\ records[1].work_count > 0

\* no thread has been started and nothing has been printed
NothingStarted ==
    /\ spawned = 0
    /\ \A i \in Workers : wpc[i] = "unstarted" /\ touches[i] = 0
    /\ lastLoad.by = 0
    /\ lgPc = "unstarted" /\ batches = 0
    /\ ~InLoop /\ ticks = 0
    /\ ~header /\ records = <<>>

\* C12: a step of File::open or of mmap either succeeds or ends the process
\* with a panic; a process that panicked there, and any process without a
\* mapping, has started no worker and no load generator, has run no monitor
\* iteration and has printed no header and no record; and a process that has
\* panicked takes no further step.
C12_SetupFailureStartsNothing ==
    /\ []((proc = "panicked" /\ mainPc \in {"open", "mmap"}) => NothingStarted)
    /\ [](~mapped => NothingStarted)
    /\ [][ /\ (mainPc = "open" /\ mainPc' # "fstat") => proc' = "panicked"
           /\ (mainPc = "mmap" /\ ~mapped') => proc' = "panicked"
           /\ proc = "running"
         ]_vars

\* C12's case: the target was opened and mmap failed
C12_Witness ==
    /\ proc = "panicked" /\ mainPc = "mmap"
    /\ sb_st_size = target_len /\ ~mapped

\* C13: the monitor loop has no state of its own from which no record can
\* follow: once the loop has been entered the main thread never panics,
\* whatever the workers, the load generator and the two feeds did.
C13_MonitorNeverStops ==
    InLoop => proc # "panicked"

\* the batches reported so far, summed
CpuReported == SumTo([k \in 1..Len(records) |-> records[k].cpu], Len(records))

\* C14: a step of the load generator leaves the touch counters, the
\* checksums, the scan cursor and the mapping alone and loads nothing from the
\* mapping; its batch leaves cpu_work alone and the step after the batch adds
\* exactly one to it; cpu_work grows in no other step, and no step of an
\* access worker changes it; so every completed batch is counted once.
C14_LoadGenIsolated ==
    /\ [][ /\ (lgPc # "unstarted" /\ lgPc' # lgPc) =>
                 /\ counts' = counts /\ sums' = sums
                 /\ seq_scan_pos' = seq_scan_pos
                 /\ mapped' = mapped /\ target_len' = target_len
                 /\ lastLoad' = lastLoad /\ wpc' = wpc
                 /\ lgPc = "batch" => (lgPc' = "add" /\ cpu_work' = cpu_work)
                 /\ lgPc = "add" => (lgPc' = "batch" /\ cpu_work' = cpu_work + 1)
           /\ cpu_work' > cpu_work => (lgPc = "add" /\ lgPc' = "batch")
           /\ (wpc' # wpc \/ touches' # touches \/ lastLoad' # lastLoad) =>
                 (cpu_work' = cpu_work /\ lgPc' = lgPc)
         ]_vars
    /\ [](CpuReported + cpu_work = batches)

\* C14's case: the load generator has completed and counted one batch before
\* a record and one after it, while a worker's touches stand in its counter
C14_Witness ==
    /\ batches = 2 /\ lgPc = "batch"
    /\ Len(records) = 1 /\ records[1].cpu = 1 /\ cpu_work = 1
    /\ counts[1] > 0 /\ sums[1] > 0

\* C15: a checksum changes only in a step of its access worker, which adds
\* the byte read to it; no step of the monitor or of the load generator
\* changes it, a drain leaves it as it was, and no record has a column for it.
C15_ChecksumNeverDrained ==
    /\ [][ /\ \A i \in Workers :
                 sums'[i] # sums[i] =>
                    /\ wpc[i] = "touch" /\ touches'[i] = touches[i] + 1
                    /\ sums'[i] > sums[i]
                    /\ mainPc' = mainPc /\ lgPc' = lgPc /\ records' = records
           /\ (mainPc' # mainPc \/ records' # records \/ lgPc' # lgPc) => sums' = sums
         ]_vars
    /\ [](\A k \in 1..Len(records) :
            DOMAIN records[k] =
              {"work_count", "work_bytes", "tlb", "read_bytes", "cpu", "tlbBad", "ioBad"})

\* C15's case: the monitor has drained the counters and printed a record
\* while worker 1's checksum still holds every byte it has read
C15_Witness ==
    /\ Len(records) >= 1 /\ records[1].work_count >= 2
    /\ counts[1] = 0
    /\ sums[1] >= 2 /\ sums[1] = touches[1]

\* the deltas of the two feeds in the records printed so far, summed
TlbReported == SumTo([k \in 1..Len(records) |-> records[k].tlb], Len(records))
ReadReported == SumTo([k \in 1..Len(records) |-> records[k].read_bytes], Len(records))

\* C16: after n records the deltas printed for a feed sum to the reading of
\* interval n, which is the baseline now held, minus the reading taken before
\* the first sleep; for both feeds.  With n = 1 this is the first record's
\* delta against the initial reading, and the difference between n and n - 1
\* is record n's delta against the reading of interval n - 1.
C16_DeltasTelescope ==
    Len(records) >= 1 =>
        /\ TlbReported = last_shootdowns - initial.shootdowns
        /\ ReadReported = last_io_bytes - initial.io_bytes

\* C17: once a feed has been read in an interval every worker's counter has
\* already been drained in that interval, and when the record is about to be
\* printed the counters have been drained and both feeds read.
C17_DrainsBeforeReads ==
    /\ (proc = "running" /\ mainPc = "read_io") =>
           \A i \in 1..threads : swapsSince[i] = 1
    /\ (proc = "running" /\ mainPc = "report") =>
           \A i \in 1..threads : swapsSince[i] = 1

\* C18: the offsets a sequential worker has touched since its claim are the
\* block's start, start + PageSize, ... in this order, at most StridesPerBlock
\* of them; a worker that claims again has touched exactly StridesPerBlock
\* offsets since its previous claim; and every touch adds one to the
\* worker's touch counter.
C18_BlockExhaustedBeforeNextClaim ==
    /\ [](\A i \in Workers :
            /\ Len(trail[i]) <= StridesPerBlock
            /\ \A k \in 1..Len(trail[i]) : trail[i][k] = pos[i] + (k - 1) * PageSize)
    /\ [][ \A i \in Workers :
             /\ (wpc[i] = "claim" /\ wpc'[i] = "touch" /\ touches[i] > 0) =>
                    Len(trail[i]) = StridesPerBlock
             /\ (seq /\ touches'[i] # touches[i]) =>
                    /\ Len(trail'[i]) = Len(trail[i]) + 1
                    /\ touches'[i] = touches[i] + 1
                    /\ counts'[i] = counts[i] + 1
         ]_vars

\* C18's case: worker 1 has exhausted one block, claimed the next, which
\* does not start at offset 0, and touched its first stride
C18_Witness ==
    /\ seq /\ touches[1] = StridesPerBlock + 1
    /\ pos[1] > 0 /\ trail[1] = <<pos[1]>>
    /\ wpc[1] = "touch"

\* C19: where the monitor subtracts a baseline from a reading, the reading is
\* not below the baseline, whatever the two readers returned.
C19_DeltaNeverUnderflows ==
    mainPc = "report" =>
        /\ shootdowns >= last_shootdowns
        /\ io_bytes >= last_io_bytes

\* The single shared counter the per-worker slots stand for.  A touch counts
\* in it when its slot is still to be swapped in the drain under way (or no
\* drain is under way); a touch on a slot the drain has passed is deferred:
\* the single counter takes it right after its fetch-and-reset.
Deferred(cs, d) == SumTo(cs, d - 1)
touch_count(wc, cs, d) == wc + SumTo(cs, MaxThreads) - Deferred(cs, d)

\* C20: under this mapping every step of the program is a step of the
\* single-counter model or leaves it alone: a touch adds one to touch_count or
\* is deferred; a slot's swap changes nothing; the record printed carries
\* exactly touch_count, as one atomic fetch-and-reset would return, and
\* leaves in it the deferred touches; and the touches each worker has
\* performed are those reported, those in touch_count and those deferred.
C20_SlotsRefineSingleCounter ==
    /\ [][ \/ /\ records' = records
              /\ touch_count(work_count', counts', di') = touch_count(work_count, counts, di) + 1
              /\ \E i \in Workers : i >= di /\ touches'[i] = touches[i] + 1
           \/ /\ records' = records
              /\ touch_count(work_count', counts', di') = touch_count(work_count, counts, di)
              /\ \A i \in Workers : touches'[i] # touches[i] => i < di
           \/ /\ Len(records') = Len(records) + 1
              /\ records'[Len(records')].work_count = touch_count(work_count, counts, di)
              /\ touch_count(work_count', counts', di') = Deferred(counts, di)
              /\ touches' = touches
         ]_vars
    /\ [](WorkReported + touch_count(work_count, counts, di) + Deferred(counts, di)
            = SumTo(touches, MaxThreads))

\* C20's case: a drain that was no atomic snapshot: both slots are swapped,
\* worker 1 has touched again since the swap of its slot, and the sum about
\* to be reported holds touches of both workers made before their swaps
C20_Witness ==
    /\ threads = 2 /\ mainPc = "report"
    /\ counts[1] > 0 /\ counts[2] = 0
    /\ work_count >= 2
    /\ touches[1] >= 2 /\ touches[2] >= 1

====
